---- MODULE Spec2Model ----
(***************************************************************************)
(* Model of package/src/build.py, the Debian package stager of otterlang.   *)
(*                                                                         *)
(* The script is one straight-line sequence of filesystem operations.  The *)
(* state is the part of the filesystem the script reads and writes, the    *)
(* script's own variable `clear` and its position (pc, named after the     *)
(* source line about to run).  `log` records the commands issued in the    *)
(* current run, with their results.                                        *)
(*                                                                         *)
(* The f-strings of lines 24-33 nest quotes of the same kind, which needs  *)
(* Python 3.12 or later; the model is of the script as such an interpreter *)
(* runs it.                                                                *)
(***************************************************************************)
EXTENDS Naturals, Sequences, FiniteSets

\* ------------------------------------------------------------- bounds
\* How many entries (besides a directory `bin`) the staging directory may
\* hold before a run.
MaxPre == 1
\* How many of the five source files (release binary, four metadata files)
\* may be missing.
MaxMissing == 1
\* How many operations of one behaviour may fail for a reason outside the
\* modelled filesystem (permissions, disk full, missing tool).
MaxFaults == 1

\* ------------------------------------------------------------- names
\* The metadata files copied by lines 25-28, in that order.
Meta == {"control", "changelog", "copyright", "rules"}

\* The files the script reads: ../../target/release/otter and ../<metadata>.
Sources == Meta \cup {"otter"}

\* Paths below ../otterlang/DEBIAN the model tracks.  "stale" stands for any
\* entry whose name the script never mentions.
Paths == {"bin", "bin/otter", "control", "changelog", "copyright", "rules", "stale"}

NoEntry == [kind |-> "none", data |-> ""]
DirEntry == [kind |-> "dir", data |-> ""]
FileOf(d) == [kind |-> "file", data |-> d]

\* A source file's bytes are named after the file; a file that was in the
\* staging directory before the run holds "old".
ContentOf(src) == src

EmptyTree == [p \in Paths |-> NoEntry]

\* `bin/otter` exists only below a directory `bin`.
WellFormed(t) == t["bin/otter"] # NoEntry => t["bin"] = DirEntry

\* The entries of t, a directory `bin` itself not counted.
EntriesIn(t) == {p \in Paths : t[p] # NoEntry /\ ~(p = "bin" /\ t[p] = DirEntry)}

\* What a pre-existing staging directory may hold: each entry a directory or
\* a file left by something else.
PreTrees == {t \in [Paths -> {NoEntry, DirEntry, FileOf("old")}] :
               /\ WellFormed(t)
               /\ Cardinality(EntriesIn(t)) <= MaxPre}

\* Which source files exist.
SourceSets == {s \in SUBSET Sources : Cardinality(Sources \ s) <= MaxMissing}

\* ------------------------------------------------------------- input
\* `clear` before line 7 has assigned it.
Unset == <<"<unset>">>

\* Answers typed at the prompt, as sequences of characters.
Responses == { <<>>, <<"y">>, <<"Y">>, <<"n">>, <<"y", "e", "s">>, <<" ", "y">> }

LowerChar(c) ==
  CASE c = "Y" -> "y"
    [] c = "N" -> "n"
    [] c = "E" -> "e"
    [] c = "S" -> "s"
    [] OTHER -> c

\* str.lower()
Lower(s) == [i \in DOMAIN s |-> LowerChar(s[i])]

\* A plausible slip: accept anything that starts with y.
IsAffirmativePrefix(s) == Len(s) > 0 /\ LowerChar(s[1]) = "y"

\* A plausible slip: compare without lower-casing.
IsAffirmativeCaseSensitive(s) == s = <<"y">>

\* Line 8: clear.lower() == 'y'
IsAffirmative(s) == Lower(s) = <<"y">>

\* ------------------------------------------------------------- state
VARIABLES
  pc,          \* the source line about to run, or done / exited / crashed
  clear,       \* the script's variable `clear`
  parent,      \* ../otterlang exists
  deb,         \* ../otterlang/DEBIAN exists
  tree,        \* the entries of ../otterlang/DEBIAN
  srcs,        \* the source files that exist
  archive,     \* ../otterlang.deb: <<>> or <<the tree it was built from>>
  log,         \* commands issued in this run
  faultsLeft,  \* external failures the environment may still inject
  parent0,     \* parent, deb, tree as they were when this run started
  deb0,
  tree0,
  run,         \* "first" or "second"
  prev         \* how the first run ended

vars == <<pc, clear, parent, deb, tree, srcs, archive, log, faultsLeft,
          parent0, deb0, tree0, run, prev>>

fsvars == <<parent, deb, tree, archive>>
histvars == <<parent0, deb0, tree0, run, prev, srcs>>

Terminal == {"done", "exited", "crashed"}

NoPrev == [pc |-> "", clear |-> Unset, start |-> EmptyTree, deb |-> FALSE, tree |-> EmptyTree]

Event(op, arg, out, res) == [op |-> op, arg |-> arg, out |-> out, res |-> res]

\* The results an operation can have: "fail" when the modelled filesystem
\* makes it fail, otherwise "ok" or, while the environment may still inject
\* one, "fault".
Outcomes(feasible) ==
  IF ~feasible THEN {"fail"}
  ELSE {"ok"} \cup (IF faultsLeft > 0 THEN {"fault"} ELSE {})

Charge(res) == faultsLeft' = (IF res = "fault" THEN faultsLeft - 1 ELSE faultsLeft)

InitWith(budget) ==
  /\ pc = "L6"
  /\ clear = Unset
  /\ srcs \in SourceSets
  /\ \/ /\ deb = TRUE
        /\ parent = TRUE
        /\ tree \in PreTrees
     \/ /\ deb = FALSE
        /\ parent \in BOOLEAN
        /\ tree = EmptyTree
  /\ archive = <<>>
  /\ log = <<>>
  /\ faultsLeft = budget
  /\ parent0 = parent
  /\ deb0 = deb
  /\ tree0 = tree
  /\ run = "first"
  /\ prev = NoPrev

Init == InitWith(MaxFaults)


\* ------------------------------------------------------------- steps
Logged(op, arg, out, res) == log' = Append(log, Event(op, arg, out, res))

\* Line 6: os.path.exists(otter_deb_path)
CheckExists ==
  /\ pc = "L6"
  /\ pc' = (IF deb THEN "L7" ELSE "L11")
  /\ UNCHANGED <<clear, log, faultsLeft, fsvars, histvars>>

\* Line 7: clear = input(...)
Prompt ==
  /\ pc = "L7"
  /\ \E r \in Responses : clear' = r
  /\ Logged("prompt", "", "", "ok")
  /\ pc' = "L8"
  /\ UNCHANGED <<faultsLeft, fsvars, histvars>>

\* What a failed `rm -r` may leave of tree t: any part of it, the directory
\* itself included, with nothing kept below a removed `bin`.
Remnants(t) ==
  {u \in [Paths -> {NoEntry, DirEntry, FileOf("old")} \cup {t[p] : p \in Paths}] :
     /\ \A p \in Paths : u[p] \in {NoEntry, t[p]}
     /\ WellFormed(u)}

\* A plausible slip: `rm` without -r, which removes nothing of a directory.
RemoveTreeNotRecursive(d, t, res) == {<<d, t>>}

\* Line 9: rm -r DEBIAN.  The pairs <<deb', tree'>> it can leave.
RemoveTree(d, t, res) ==
  IF res = "ok" THEN {<<FALSE, EmptyTree>>} ELSE {<<d, u>> : u \in Remnants(t)}

\* Lines 8-9: if clear.lower() == 'y': os.system('rm -r ...'), result ignored
Decide ==
  /\ pc = "L8"
  /\ IF IsAffirmative(clear)
       THEN \E res \in Outcomes(deb) :
              /\ \E dt \in RemoveTree(deb, tree, res) : deb' = dt[1] /\ tree' = dt[2]
              /\ Logged("rm", "DEBIAN", "", res)
              /\ Charge(res)
       ELSE UNCHANGED <<deb, tree, log, faultsLeft>>
  /\ pc' = "L11"
  /\ UNCHANGED <<clear, parent, archive, histvars>>

\* Line 11: if not os.path.exists(otter_deb_path)
CheckMissing ==
  /\ pc = "L11"
  /\ pc' = (IF ~deb THEN "L12" ELSE "L16")
  /\ UNCHANGED <<clear, log, faultsLeft, fsvars, histvars>>

\* Lines 12-13: create ../otterlang if missing; os.mkdir raises on failure
MkParent ==
  /\ pc = "L12"
  /\ IF ~parent
       THEN \E res \in Outcomes(TRUE) :
              /\ parent' = (res = "ok")
              /\ pc' = (IF res = "ok" THEN "L14" ELSE "crashed")
              /\ Logged("mkdir", "otterlang", "", res)
              /\ Charge(res)
       ELSE /\ pc' = "L14"
            /\ UNCHANGED <<parent, log, faultsLeft>>
  /\ UNCHANGED <<clear, deb, tree, archive, histvars>>

\* Line 14: os.mkdir(otter_deb_path)
MkDeb ==
  /\ pc = "L14"
  /\ \E res \in Outcomes(parent /\ ~deb) :
       /\ deb' = (res = "ok")
       /\ pc' = (IF res = "ok" THEN "L16" ELSE "crashed")
       /\ Logged("mkdir", "DEBIAN", "", res)
       /\ Charge(res)
  /\ UNCHANGED <<clear, parent, tree, archive, histvars>>

\* A plausible slip: the check reports the missing binary and goes on.
AfterVerifyNoExit(present) == "L21"

\* Lines 17-19: where the run goes after the binary check.
AfterVerify(present) == IF present THEN "L21" ELSE "exited"

\* Lines 16-19: the release binary must exist, else print and exit()
Verify ==
  /\ pc = "L16"
  /\ pc' = AfterVerify("otter" \in srcs)
  /\ Logged("check", "otter", "", IF "otter" \in srcs THEN "ok" ELSE "absent")
  /\ UNCHANGED <<clear, faultsLeft, fsvars, histvars>>

\* Lines 21-22: if not os.path.exists(DEBIAN/bin): os.mkdir(DEBIAN/bin)
MkBin ==
  /\ pc = "L21"
  /\ IF tree["bin"] = NoEntry
       THEN \E res \in Outcomes(deb) :
              /\ tree' = (IF res = "ok" THEN [tree EXCEPT !["bin"] = DirEntry] ELSE tree)
              /\ pc' = (IF res = "ok" THEN "L24" ELSE "crashed")
              /\ Logged("mkdir", "bin", "", res)
              /\ Charge(res)
       ELSE /\ pc' = "L24"
            /\ UNCHANGED <<tree, log, faultsLeft>>
  /\ UNCHANGED <<clear, parent, deb, archive, histvars>>

\* A plausible slip: the destination is always taken as the file to write.
CpTargetAsFile(t, src, dest) == IF dest = "" THEN src ELSE dest

\* The path `cp <src> <dest>` writes: inside dest when dest is a directory
\* ("" is the staging directory itself), dest itself otherwise.
CpTarget(t, src, dest) ==
  IF dest = "" THEN src
  ELSE IF t[dest] = DirEntry THEN "bin/otter" ELSE dest

\* cp succeeds when the source exists, the destination's directory exists
\* and the path it writes is not a directory.
CpFeasible(t, src, dest) ==
  /\ src \in srcs
  /\ deb
  /\ t[CpTarget(t, src, dest)].kind # "dir"

\* The tree after `cp <src> <dest>` with result res.
CpResult(t, src, dest, res) ==
  IF res = "ok"
    THEN [t EXCEPT ![CpTarget(t, src, dest)] = FileOf(ContentOf(src))]
    ELSE t

\* os.system('cp ...'): the exit status is ignored and the run goes on
Cp(here, src, dest, next) ==
  /\ pc = here
  /\ \E res \in Outcomes(CpFeasible(tree, src, dest)) :
       /\ tree' = CpResult(tree, src, dest, res)
       /\ Logged("cp", src, dest, res)
       /\ Charge(res)
  /\ pc' = next
  /\ UNCHANGED <<clear, parent, deb, archive, histvars>>

\* Line 24: cp ../../target/release/otter DEBIAN/bin
CpOtter == Cp("L24", "otter", "bin", "L25")
\* Line 25: cp ../control DEBIAN
CpControl == Cp("L25", "control", "", "L26")
\* Line 26: cp ../changelog DEBIAN
CpChangelog == Cp("L26", "changelog", "", "L27")
\* Line 27: cp ../copyright DEBIAN
CpCopyright == Cp("L27", "copyright", "", "L28")
\* Line 28: cp ../rules DEBIAN
CpRules == Cp("L28", "rules", "", "L33")

\* A plausible slip: the staging directory is cleaned up after archiving.
DpkgEffectCleanup(d, t, a, res) ==
  <<FALSE, EmptyTree, IF res = "ok" THEN <<t>> ELSE a>>

\* What the archiver leaves: <<deb', tree', archive'>>.  It only reads the
\* staging directory.
DpkgEffect(d, t, a, res) == <<d, t, IF res = "ok" THEN <<t>> ELSE a>>

\* Line 33: dpkg-deb -b ../otterlang ../otterlang.deb, exit status ignored.
\* dpkg-deb needs DEBIAN/control to be a file.
Dpkg ==
  /\ pc = "L33"
  /\ \E res \in Outcomes(deb /\ tree["control"].kind = "file") :
       /\ LET e == DpkgEffect(deb, tree, archive, res)
          IN /\ deb' = e[1]
             /\ tree' = e[2]
             /\ archive' = e[3]
       /\ Logged("dpkg", "otterlang", "otterlang.deb", res)
       /\ Charge(res)
  /\ pc' = "done"
  /\ UNCHANGED <<clear, parent, histvars>>

\* The script is started again on what the first run left.
Rerun ==
  /\ pc \in Terminal
  /\ run = "first"
  /\ run' = "second"
  /\ prev' = [pc |-> pc, clear |-> clear, start |-> tree0, deb |-> deb, tree |-> tree]
  /\ pc' = "L6"
  /\ clear' = Unset
  /\ log' = <<>>
  /\ parent0' = parent
  /\ deb0' = deb
  /\ tree0' = tree
  /\ UNCHANGED <<fsvars, srcs, faultsLeft>>

RunStep ==
  \/ CheckExists
  \/ Prompt
  \/ Decide
  \/ CheckMissing
  \/ MkParent
  \/ MkDeb
  \/ Verify
  \/ MkBin
  \/ CpOtter
  \/ CpControl
  \/ CpChangelog
  \/ CpCopyright
  \/ CpRules
  \/ Dpkg

Next == RunStep

\* One run, in an environment that may make operations fail.
Spec == Init /\ [][Next]_vars

InitTwice == InitWith(0)

NextTwice == RunStep \/ Rerun

\* Two runs in succession on the same inputs, in an environment where an
\* operation fails only when the modelled filesystem makes it fail.
SpecTwice == InitTwice /\ [][NextTwice]_vars


\* ------------------------------------------------------------- claims
Ran(op) == \E i \in DOMAIN log : log[i].op = op

Issued(op, arg) == \E i \in DOMAIN log : log[i].op = op /\ log[i].arg = arg

\* No operation of this run failed for a reason outside the modelled
\* filesystem.
NoFault == \A i \in DOMAIN log : log[i].res # "fault"

\* Every command of this run succeeded.
AllOk == \A i \in DOMAIN log : log[i].res = "ok"

\* The answers whose lower-cased form is exactly "y".
Yes == { <<"y">>, <<"Y">> }

\* The user was asked and accepted clearing.
Accepted == Ran("prompt") /\ clear \in Yes

\* The user was asked and did not accept.
Declined == Ran("prompt") /\ clear \notin Yes

Populating == {"L21", "L24", "L25", "L26", "L27", "L28", "L33", "done"}

\* C1: when the release binary is absent the run never reaches population:
\* it issues no mkdir of bin, no cp and no dpkg-deb, creates no bin entry,
\* and the binary check leaves it in the exited state, where no step of the
\* script is enabled; whatever the staging directory was and whatever was
\* answered.
C1_MissingBinaryStops ==
  "otter" \notin srcs =>
    /\ pc \notin Populating
    /\ ~Ran("cp") /\ ~Ran("dpkg") /\ ~Issued("mkdir", "bin")
    /\ tree["bin"] \in {NoEntry, tree0["bin"]}
    /\ archive = <<>>
    /\ (Ran("check") => pc = "exited" /\ ~ENABLED RunStep)

C1_Witness == pc = "exited" /\ deb0 /\ clear = <<"n">> /\ tree0["stale"] # NoEntry

\* C2: from a state without staging directory, with the release binary and
\* the four metadata files present, a run in which no operation fails never
\* prompts, and ends (done) with the staging directory in place, holding
\* bin/otter, control, changelog, copyright and rules, after exactly one
\* dpkg-deb invocation, on ../otterlang with output ../otterlang.deb.
C2_FreshRunStages ==
  (~deb0 /\ srcs = Sources /\ NoFault) =>
    /\ ~Ran("prompt")
    /\ pc \notin {"exited", "crashed"}
    /\ pc = "done" =>
         /\ deb
         /\ tree["bin"] = DirEntry
         /\ tree["bin/otter"] = FileOf(ContentOf("otter"))
         /\ \A n \in Meta : tree[n] = FileOf(ContentOf(n))
         /\ Cardinality({i \in DOMAIN log : log[i].op = "dpkg"}) = 1
         /\ \A i \in DOMAIN log : log[i].op = "dpkg" =>
              log[i].arg = "otterlang" /\ log[i].out = "otterlang.deb"

C2_Witness == pc = "done" /\ ~deb0 /\ ~parent0 /\ srcs = Sources /\ NoFault

\* C3: rm -r is issued only in a run that found the staging directory and
\* was answered y or Y; in every run that does not issue it, whatever
\* existed before the run still exists.
C3_DeleteOnlyOnConsent ==
  /\ Ran("rm") => deb0 /\ clear \in Yes
  /\ (~deb0 \/ clear \notin Yes) => ~Ran("rm")
  /\ ~Ran("rm") =>
       /\ parent0 => parent
       /\ deb0 => deb
       /\ \A p \in Paths : tree0[p] # NoEntry => tree[p] # NoEntry

C3_Witness ==
  pc = "done" /\ deb0 /\ clear = <<"y", "e", "s">> /\ tree0["stale"] # NoEntry

\* C4 (as claimed): when the staging directory existed and clearing was
\* accepted, population starts (line 21) on an existing, empty staging
\* directory, also when rm -r failed.
C4_EmptyBeforePopulation ==
  (deb0 /\ Accepted /\ pc = "L21") => deb /\ tree = EmptyTree

Targets == Meta \cup {"bin/otter"}

\* C5 (as claimed): when the staging directory existed, the answer was not
\* affirmative and the binary is present, at the end of a run in which
\* nothing failed for an outside reason every pre-existing entry not named
\* bin/otter, control, changelog, copyright or rules is unchanged, all five
\* copies were issued, and each target that was a file and whose source
\* exists holds its source's content.
C5_DeclinedKeepsOthers ==
  (deb0 /\ Declined /\ "otter" \in srcs /\ pc = "done" /\ NoFault) =>
    /\ \A p \in Paths \ Targets : tree0[p] # NoEntry => tree[p] = tree0[p]
    /\ \A s \in Sources : Issued("cp", s)
    /\ \A n \in Meta : (tree0[n].kind = "file" /\ n \in srcs) => tree[n] = FileOf(ContentOf(n))
    /\ tree0["bin/otter"].kind = "file" => tree["bin/otter"] = FileOf(ContentOf("otter"))

\* C6 (as claimed): a cp or dpkg-deb that fails is the last command of the
\* run.
C6_FailureStopsRun ==
  \A i \in DOMAIN log :
    (log[i].op \in {"cp", "dpkg"} /\ log[i].res # "ok") => i = Len(log)

\* C7: when the script is run twice on the same inputs and clearing is
\* accepted each time it is offered, the second run leaves the staging
\* directory exactly as the first run left it, whatever it held at first.
C7_SecondRunSameContents ==
  ( /\ run = "second"
    /\ pc \in {"done", "exited"}
    /\ prev.clear \in Yes \cup {Unset}
    /\ clear \in Yes ) =>
      /\ deb = prev.deb
      /\ tree = prev.tree
      /\ pc = prev.pc

C7_Witness ==
  /\ run = "second"
  /\ pc = "done"
  /\ prev.clear = <<"Y">>
  /\ clear = <<"y">>
  /\ prev.start["stale"] # NoEntry

\* C8 (as claimed): once population has ended with every command
\* successful, control, changelog, copyright and rules hold their sources'
\* content and bin/otter holds the release binary's.
C8_VerbatimCopies ==
  (pc \in {"L33", "done"} /\ AllOk) =>
    /\ \A n \in Meta : tree[n] = FileOf(ContentOf(n))
    /\ tree["bin/otter"] = FileOf(ContentOf("otter"))

\* C9: a run stopped by the missing binary leaves the staging directory in
\* existence, also when it did not exist before; and when clearing was
\* accepted and nothing failed for an outside reason, what the directory
\* held is gone.
C9_NotTransactional ==
  pc = "exited" =>
    /\ deb
    /\ (Accepted /\ NoFault) => tree = EmptyTree

C9_Witness ==
  pc = "exited" /\ deb0 /\ tree0["stale"] # NoEntry /\ clear = <<"y">> /\ tree = EmptyTree

\* The place of a command in the script.
Rank(e) ==
  CASE e.op = "prompt" -> 1
    [] e.op = "rm" -> 2
    [] e.op = "mkdir" /\ e.arg = "otterlang" -> 3
    [] e.op = "mkdir" /\ e.arg = "DEBIAN" -> 4
    [] e.op = "check" -> 5
    [] e.op = "mkdir" /\ e.arg = "bin" -> 6
    [] e.op = "cp" /\ e.arg = "otter" -> 7
    [] e.op = "cp" /\ e.arg = "control" -> 8
    [] e.op = "cp" /\ e.arg = "changelog" -> 9
    [] e.op = "cp" /\ e.arg = "copyright" -> 10
    [] e.op = "cp" /\ e.arg = "rules" -> 11
    [] e.op = "dpkg" -> 12
    [] OTHER -> 0

\* C10: the commands of a run are issued in the script's order, each at
\* most once; the prompt only when the staging directory existed; dpkg-deb
\* only after all five copies; and once dpkg-deb has returned the run is
\* over, with the staging directory still on disk as dpkg-deb found it.
C10_FixedOrder ==
  /\ \A i, j \in DOMAIN log : i < j => Rank(log[i]) < Rank(log[j])
  /\ \A i \in DOMAIN log : Rank(log[i]) > 0
  /\ Ran("prompt") => deb0
  /\ Ran("rm") => Ran("prompt")
  /\ Ran("dpkg") => \A s \in Sources : Issued("cp", s)
  /\ Ran("cp") => Issued("check", "otter")
  /\ Ran("dpkg") =>
       /\ pc = "done"
       /\ deb
       /\ ~ENABLED RunStep
       /\ archive # <<>> => archive[1] = tree

C10_Witness == pc = "done" /\ Ran("rm") /\ Ran("dpkg") /\ Len(log) = 11

====
